---- MODULE Spec2Model ----
(***************************************************************************)
(* State-machine model of src/space4k.py: the main loop of main_game, the  *)
(* sprite classes Player / Enemy / Bullet, create_enemies, and the two     *)
(* terminal screens game_over_screen / win_screen.                         *)
(*                                                                         *)
(* One action per section of the loop body, in source order; pc is the     *)
(* position of the (single) thread of control:                             *)
(*   "top"         the `while running` test and clock.tick   (282-283)     *)
(*   "events"      the event loop and the terminal dispatch  (286-306)     *)
(*   "update"      all_sprites.update()                      (309)         *)
(*   "formation"   the enemy movement block                  (312-334)     *)
(*   "shoot"       the enemy shooting loop                   (337-339)     *)
(*   "hit_enemies" groupcollide + scoring                    (343-347)     *)
(*   "hit_player"  spritecollide + lives                     (350-358)     *)
(*   "win_check"   the win test                              (361-363)     *)
(*   "screen"      the wait loop of a terminal screen        (219-230)     *)
(*   "exited"      after sys.exit()                                        *)
(*                                                                         *)
(* Lengths are in pixels and times in milliseconds, as in the source.      *)
(* The arena is a scaled-down one: the geometry definitions below carry    *)
(* the names of the source's constants but smaller values, chosen so that  *)
(* the relations the game relies on are those of the source (the formation *)
(* is narrower than the screen, a bullet is no larger than the gap between *)
(* two enemies, a bullet moves less per tick than a target is high, the    *)
(* descent step is smaller than an enemy, the player starts off the grid   *)
(* of its speed so that clamping really clamps).  Times, lives and the     *)
(* score increment keep the source's values.                               *)
(***************************************************************************)
EXTENDS Integers, Sequences, FiniteSets, TLC

\* ---- constants of the source (lines 7-41); geometry scaled, see above ----
SCREEN_WIDTH == 6
SCREEN_HEIGHT == 13
PLAYER_WIDTH == 3
PLAYER_HEIGHT == 2
PLAYER_SPEED == 2
PLAYER_LIVES == 3
BULLET_WIDTH == 1
BULLET_HEIGHT == 1
BULLET_SPEED == 2
ENEMY_COLS == 1
ENEMY_ROWS == 2
ENEMY_SPACING_X == 4
ENEMY_SPACING_Y == 4
ENEMY_WIDTH == 3
ENEMY_HEIGHT == 3
ENEMY_MOVE_SPEED_X == 1
ENEMY_MOVE_DOWN_STEP == 1
ENEMY_MOVE_INTERVAL == 500
\* Player.shoot_delay (line 111)
shoot_delay == 250
\* the literal bottom margin of the player (line 108, scaled)
PLAYER_MARGIN == 1
\* the literal start_y of create_enemies (line 194, scaled)
start_y == 1
\* the literal score increment (line 345)
SCORE_PER_ENEMY == 100

\* ---- bounds of the model ----
\* the shoot key is not pressed and no enemy fires while this many bullets
\* (of both groups together) are in flight
MaxBullets == 2
\* the durations (ms) a frame can take: clock.tick(FPS) returns at least
\* 1000/FPS but a frame may take arbitrarily long
TickDurations == {250, 500, 1200}

VARIABLES
    pc,                     \* position in main_game / the terminal screen
    running,                \* main_game's `running`
    game_state,             \* "playing" | "game_over" | "win"
    score,
    player,                 \* [x, y, lives, alive]: rect.x, rect.y, lives, still in all_sprites
    enemies_group,          \* sequence of [id, x, y], in group (creation) order
    player_bullets,         \* sequence of [x, y, speed_y] (rect.x, rect.y, speed_y), in group order
    enemy_bullets,          \* sequence of [x, y, speed_y], in group order
    enemy_current_move_speed_x,
    move_enemies_down,
    wall_hit,               \* main_game's local `wall_hit`, as the last formation step left it
    since_last_shot,        \* get_ticks() - player.last_shot_time, saturated
    since_last_enemy_move,  \* get_ticks() - last_enemy_move_time, saturated
    shoot_requests,         \* the shoot KEYDOWNs the last event loop (line 286) handled
    cues,                   \* the cues sound_engine.play was called with in the last step
    console                 \* what the loop of lines 381-382 printed in the last step

vars == <<pc, running, game_state, score, player, enemies_group, player_bullets,
          enemy_bullets, enemy_current_move_speed_x, move_enemies_down, wall_hit,
          since_last_shot, since_last_enemy_move, shoot_requests, cues, console>>

\* ---- helpers ----
Min(a, b) == IF a < b THEN a ELSE b

\* elapsed times are kept up to the first value at which the comparisons of
\* lines 130 and 314 no longer change
ShotCap == shoot_delay + 1
MoveCap == ENEMY_MOVE_INTERVAL

\* pygame.Rect.colliderect on rects given by top-left corner and size
colliderect(ax, ay, aw, ah, bx, by, bw, bh) ==
    /\ ax < bx + bw
    /\ ax + aw > bx
    /\ ay < by + bh
    /\ ay + ah > by

BulletHitsEnemy(b, e) ==
    colliderect(e.x, e.y, ENEMY_WIDTH, ENEMY_HEIGHT, b.x, b.y, BULLET_WIDTH, BULLET_HEIGHT)

BulletHitsPlayer(b, p) ==
    colliderect(p.x, p.y, PLAYER_WIDTH, PLAYER_HEIGHT, b.x, b.y, BULLET_WIDTH, BULLET_HEIGHT)

\* Bullet with speed_y = BULLET_SPEED whatever the direction
Bullet_Unsigned(x, y, direction) ==
    [x |-> x - (BULLET_WIDTH \div 2),
     y |-> IF direction = -1 THEN y - BULLET_HEIGHT ELSE y,
     speed_y |-> BULLET_SPEED]

\* Bullet.__init__: centerx = x, then bottom = y (direction -1) or top = y;
\* speed_y = BULLET_SPEED * direction
Bullet(x, y, direction) ==
    [x |-> x - (BULLET_WIDTH \div 2),
     y |-> IF direction = -1 THEN y - BULLET_HEIGHT ELSE y,
     speed_y |-> BULLET_SPEED * direction]

\* Player.__init__
NewPlayer ==
    [x |-> (SCREEN_WIDTH - PLAYER_WIDTH) \div 2,
     y |-> SCREEN_HEIGHT - PLAYER_HEIGHT - PLAYER_MARGIN,
     lives |-> PLAYER_LIVES,
     alive |-> TRUE]

start_x ==
    (SCREEN_WIDTH - (ENEMY_COLS * ENEMY_SPACING_X)) \div 2
        + (ENEMY_SPACING_X \div 2) - (ENEMY_WIDTH \div 2)

\* create_enemies: row-major grid, group order = creation order
create_enemies ==
    [i \in 1..(ENEMY_ROWS * ENEMY_COLS) |->
        [id |-> i - 1,
         x |-> start_x + ((i - 1) % ENEMY_COLS) * ENEMY_SPACING_X,
         y |-> start_y + ((i - 1) \div ENEMY_COLS) * ENEMY_SPACING_Y]]

\* the locals of main_game after lines 254-280
Init ==
    /\ pc = "top"
    /\ running = TRUE
    /\ game_state = "playing"
    /\ score = 0
    /\ player = NewPlayer
    /\ enemies_group = create_enemies
    /\ player_bullets = <<>>
    /\ enemy_bullets = <<>>
    /\ enemy_current_move_speed_x = ENEMY_MOVE_SPEED_X
    /\ move_enemies_down = FALSE
    /\ wall_hit = FALSE
    /\ since_last_shot = 0
    /\ since_last_enemy_move = 0
    /\ shoot_requests = 0
    /\ cues = <<>>
    /\ console = <<>>

\* Restart with the score carried over into the new playthrough
Restart_KeepsScore ==
    /\ pc' = "top"
    /\ running' = TRUE
    /\ game_state' = "playing"
    /\ score' = score
    /\ player' = NewPlayer
    /\ enemies_group' = create_enemies
    /\ player_bullets' = <<>>
    /\ enemy_bullets' = <<>>
    /\ enemy_current_move_speed_x' = ENEMY_MOVE_SPEED_X
    /\ move_enemies_down' = FALSE
    /\ wall_hit' = FALSE
    /\ since_last_shot' = 0
    /\ since_last_enemy_move' = 0
    /\ shoot_requests' = 0
    /\ cues' = <<>>
    /\ console' = <<"Restarting the game...">>

\* Restart with the Player object, and so its last_shot_time, kept from the
\* playthrough before
Restart_KeepsCooldown ==
    /\ pc' = "top"
    /\ running' = TRUE
    /\ game_state' = "playing"
    /\ score' = 0
    /\ player' = NewPlayer
    /\ enemies_group' = create_enemies
    /\ player_bullets' = <<>>
    /\ enemy_bullets' = <<>>
    /\ enemy_current_move_speed_x' = ENEMY_MOVE_SPEED_X
    /\ move_enemies_down' = FALSE
    /\ wall_hit' = FALSE
    /\ since_last_shot' = since_last_shot
    /\ since_last_enemy_move' = 0
    /\ shoot_requests' = 0
    /\ cues' = <<>>
    /\ console' = <<"Restarting the game...">>

\* `return True` from main_game, the print of line 382 and the next
\* main_game() of line 381
Restart ==
    /\ pc' = "top"
    /\ running' = TRUE
    /\ game_state' = "playing"
    /\ score' = 0
    /\ player' = NewPlayer
    /\ enemies_group' = create_enemies
    /\ player_bullets' = <<>>
    /\ enemy_bullets' = <<>>
    /\ enemy_current_move_speed_x' = ENEMY_MOVE_SPEED_X
    /\ move_enemies_down' = FALSE
    /\ wall_hit' = FALSE
    /\ since_last_shot' = 0
    /\ since_last_enemy_move' = 0
    /\ shoot_requests' = 0
    /\ cues' = <<>>
    /\ console' = <<"Restarting the game...">>

\* ---- input ----
\* the events the main loop distinguishes (lines 287-297); KEYDOWN_SPACE stands
\* for any of the three shoot keys
EventTypes == {"QUIT", "KEYDOWN_SPACE", "KEYDOWN_r", "KEYDOWN_q"}

\* the events a terminal screen distinguishes (lines 221-229)
ScreenEventTypes == {"QUIT", "KEYUP_q", "KEYUP_r"}

\* what one pygame.event.get() returns: no event, one event, or two events
EventBatches(S) == {<<>>} \cup {<<a>> : a \in S} \cup {<<a, b>> : a \in S, b \in S}

\* ---- Player ----
\* Player.shoot with the cooldown test `>=` instead of `>`
Player_shoot_AtDelay(st) ==
    IF st.since >= shoot_delay
    THEN [st EXCEPT !.since = 0,
                    !.bullets = Append(@, Bullet(player.x + (PLAYER_WIDTH \div 2), player.y, -1)),
                    !.cues = Append(@, "player_shoot")]
    ELSE st

\* Player.shoot, on the loop state st = [running, returned, since, bullets, cues]
Player_shoot(st) ==
    IF st.since > shoot_delay
    THEN [st EXCEPT !.since = 0,
                    !.bullets = Append(@, Bullet(player.x + (PLAYER_WIDTH \div 2), player.y, -1)),
                    !.cues = Append(@, "player_shoot")]
    ELSE st

\* Player.update without the clamping of lines 123-126
Player_update_NoClamp(p, left, right) ==
    LET s1 == IF left THEN -PLAYER_SPEED ELSE 0
        speed == IF right THEN PLAYER_SPEED ELSE s1
    IN  [p EXCEPT !.x = @ + speed]

\* Player.update with the key state (left, right)
Player_update(p, left, right) ==
    LET s1 == IF left THEN -PLAYER_SPEED ELSE 0
        speed == IF right THEN PLAYER_SPEED ELSE s1
        x1 == p.x + speed
        x2 == IF x1 < 0 THEN 0 ELSE x1
        x3 == IF x2 + PLAYER_WIDTH > SCREEN_WIDTH THEN SCREEN_WIDTH - PLAYER_WIDTH ELSE x2
    IN  [p EXCEPT !.x = x3]

\* ---- Bullet ----
\* Bullets_update with the tests of line 185 as `<=` and `>=`
Bullets_update_AtEdge(bs) ==
    LET moved == [i \in 1..Len(bs) |-> [bs[i] EXCEPT !.y = @ + bs[i].speed_y]]
        onscreen(b) == ~(b.y + BULLET_HEIGHT <= 0 \/ b.y >= SCREEN_HEIGHT)
    IN  SelectSeq(moved, onscreen)

\* Bullet.update on a whole group: move, then kill() what left the screen
Bullets_update(bs) ==
    LET moved == [i \in 1..Len(bs) |-> [bs[i] EXCEPT !.y = @ + bs[i].speed_y]]
        onscreen(b) == ~(b.y + BULLET_HEIGHT < 0 \/ b.y > SCREEN_HEIGHT)
    IN  SelectSeq(moved, onscreen)

\* ---- the main loop ----
\* line 282 (test) and 283 (clock.tick): a frame passes
ClockTick ==
    /\ pc = "top"
    /\ running
    /\ \E dt \in TickDurations :
          /\ since_last_shot' = Min(since_last_shot + dt, ShotCap)
          /\ since_last_enemy_move' = Min(since_last_enemy_move + dt, MoveCap)
    /\ pc' = "events"
    /\ cues' = <<>>
    /\ console' = <<>>
    /\ UNCHANGED <<running, game_state, score, player, enemies_group, player_bullets,
                   enemy_bullets, enemy_current_move_speed_x, move_enemies_down, wall_hit,
                   shoot_requests>>

\* lines 375-376: the loop ended
ProcessExit ==
    /\ pc = "top"
    /\ ~running
    /\ pc' = "exited"
    /\ cues' = <<>>
    /\ console' = <<>>
    /\ UNCHANGED <<running, game_state, score, player, enemies_group, player_bullets,
                   enemy_bullets, enemy_current_move_speed_x, move_enemies_down, wall_hit,
                   since_last_shot, since_last_enemy_move, shoot_requests>>

\* the body of the event loop (lines 287-297) for one event
HandleEvent(st, ev) ==
    IF st.returned THEN st
    ELSE IF ev = "QUIT" THEN [st EXCEPT !.running = FALSE]
    ELSE IF game_state = "playing"
         THEN IF ev = "KEYDOWN_SPACE" THEN Player_shoot(st) ELSE st
    ELSE IF game_state = "game_over" \/ game_state = "win"
         THEN IF ev = "KEYDOWN_r" THEN [st EXCEPT !.returned = TRUE]
              ELSE IF ev = "KEYDOWN_q" THEN [st EXCEPT !.running = FALSE]
              ELSE st
    ELSE st

RECURSIVE HandleEvents(_, _)
HandleEvents(st, q) ==
    IF q = <<>> THEN st ELSE HandleEvents(HandleEvent(st, Head(q)), Tail(q))

\* the number of shoot requests among the events q
ShootRequests(q) == Cardinality({i \in 1..Len(q) : q[i] = "KEYDOWN_SPACE"})

\* lines 286-306: the event loop over the events q that pygame.event.get()
\* returns, then the dispatch on game_state
EventHandling ==
    /\ pc = "events"
    /\ \E q \in EventBatches(EventTypes) :
        /\ ShootRequests(q) > 0 => Len(player_bullets) + Len(enemy_bullets) < MaxBullets
        /\ LET st == HandleEvents([running |-> running, returned |-> FALSE,
                                   since |-> since_last_shot, bullets |-> player_bullets,
                                   cues |-> <<>>], q)
           IN  IF st.returned
               THEN Restart
               ELSE /\ running' = st.running
                    /\ since_last_shot' = st.since
                    /\ player_bullets' = st.bullets
                    /\ cues' = st.cues
                    /\ console' = <<>>
                    /\ shoot_requests' = IF game_state = "playing" THEN ShootRequests(q) ELSE 0
                    /\ pc' = IF game_state # "playing" THEN "screen" ELSE "update"
                    /\ UNCHANGED <<game_state, score, player, enemies_group,
                                   enemy_bullets, enemy_current_move_speed_x,
                                   move_enemies_down, wall_hit, since_last_enemy_move>>

\* line 309: all_sprites.update() (Enemy inherits the empty Sprite.update)
UpdateSprites ==
    /\ pc = "update"
    /\ \E left \in BOOLEAN, right \in BOOLEAN :
          player' = IF player.alive THEN Player_update(player, left, right) ELSE player
    /\ player_bullets' = Bullets_update(player_bullets)
    /\ enemy_bullets' = Bullets_update(enemy_bullets)
    /\ pc' = "formation"
    /\ cues' = <<>>
    /\ console' = <<>>
    /\ shoot_requests' = 0
    /\ UNCHANGED <<running, game_state, score, enemies_group, enemy_current_move_speed_x,
                   move_enemies_down, wall_hit, since_last_shot, since_last_enemy_move>>

\* ---- Formation ----
\* EnemyStep with the descent test (line 325) ahead of the wall test (line
\* 321): the drop is applied one step after the bounce
EnemyStep_LateDescent(es, sp, down, ptop) ==
    LET moved == [i \in 1..Len(es) |-> [es[i] EXCEPT !.x = @ + sp]]
        hit == \E i \in 1..Len(moved) :
                  \/ moved[i].x + ENEMY_WIDTH > SCREEN_WIDTH
                  \/ moved[i].x < 0
        sp1 == IF hit THEN sp * (-1) ELSE sp
        dropped == [i \in 1..Len(moved) |-> [moved[i] EXCEPT !.y = @ + ENEMY_MOVE_DOWN_STEP]]
    IN  IF down
        THEN [enemies |-> dropped, speed |-> sp1, down |-> hit, wall_hit |-> hit,
              reached |-> \E i \in 1..Len(dropped) : dropped[i].y + ENEMY_HEIGHT >= ptop]
        ELSE [enemies |-> moved, speed |-> sp1, down |-> hit, wall_hit |-> hit,
              reached |-> FALSE]

\* EnemyStep with the loop of lines 316-319 left at the first enemy that
\* breaches a wall: the enemies after it in group order are not moved
EnemyStep_BreakAtWall(es, sp, down, ptop) ==
    LET breaches(e) == e.x + sp + ENEMY_WIDTH > SCREEN_WIDTH \/ e.x + sp < 0
        hit == \E i \in 1..Len(es) : breaches(es[i])
        first == IF hit THEN CHOOSE i \in 1..Len(es) :
                                /\ breaches(es[i])
                                /\ \A j \in 1..(i - 1) : ~breaches(es[j])
                 ELSE Len(es)
        moved == [i \in 1..Len(es) |-> IF i <= first THEN [es[i] EXCEPT !.x = @ + sp] ELSE es[i]]
        sp1 == IF hit THEN sp * (-1) ELSE sp
        down1 == down \/ hit
        dropped == [i \in 1..Len(moved) |-> [moved[i] EXCEPT !.y = @ + ENEMY_MOVE_DOWN_STEP]]
    IN  IF down1
        THEN [enemies |-> dropped, speed |-> sp1, down |-> FALSE, wall_hit |-> hit,
              reached |-> \E i \in 1..Len(dropped) : dropped[i].y + ENEMY_HEIGHT >= ptop]
        ELSE [enemies |-> moved, speed |-> sp1, down |-> FALSE, wall_hit |-> hit,
              reached |-> FALSE]

\* EnemyStep with the test of line 328 as `>` instead of `>=`
EnemyStep_ReachStrict(es, sp, down, ptop) ==
    LET moved == [i \in 1..Len(es) |-> [es[i] EXCEPT !.x = @ + sp]]
        hit == \E i \in 1..Len(moved) :
                  \/ moved[i].x + ENEMY_WIDTH > SCREEN_WIDTH
                  \/ moved[i].x < 0
        sp1 == IF hit THEN sp * (-1) ELSE sp
        down1 == down \/ hit
        dropped == [i \in 1..Len(moved) |-> [moved[i] EXCEPT !.y = @ + ENEMY_MOVE_DOWN_STEP]]
    IN  IF down1
        THEN [enemies |-> dropped, speed |-> sp1, down |-> FALSE, wall_hit |-> hit,
              reached |-> \E i \in 1..Len(dropped) : dropped[i].y + ENEMY_HEIGHT > ptop]
        ELSE [enemies |-> moved, speed |-> sp1, down |-> FALSE, wall_hit |-> hit,
              reached |-> FALSE]

\* EnemyStep without the sign change of line 322
EnemyStep_NoFlip(es, sp, down, ptop) ==
    LET moved == [i \in 1..Len(es) |-> [es[i] EXCEPT !.x = @ + sp]]
        hit == \E i \in 1..Len(moved) :
                  \/ moved[i].x + ENEMY_WIDTH > SCREEN_WIDTH
                  \/ moved[i].x < 0
        down1 == down \/ hit
        dropped == [i \in 1..Len(moved) |-> [moved[i] EXCEPT !.y = @ + ENEMY_MOVE_DOWN_STEP]]
    IN  IF down1
        THEN [enemies |-> dropped, speed |-> sp, down |-> FALSE, wall_hit |-> hit,
              reached |-> \E i \in 1..Len(dropped) : dropped[i].y + ENEMY_HEIGHT >= ptop]
        ELSE [enemies |-> moved, speed |-> sp, down |-> FALSE, wall_hit |-> hit,
              reached |-> FALSE]

\* lines 315-332: one formation step on the group es with step sp and pending
\* flag down; ptop is player.rect.top.  wall_hit = the local of line 315 after
\* the loop of lines 316-319; reached = line 328 held for some enemy
EnemyStep(es, sp, down, ptop) ==
    LET moved == [i \in 1..Len(es) |-> [es[i] EXCEPT !.x = @ + sp]]
        hit == \E i \in 1..Len(moved) :
                  \/ moved[i].x + ENEMY_WIDTH > SCREEN_WIDTH
                  \/ moved[i].x < 0
        sp1 == IF hit THEN sp * (-1) ELSE sp
        down1 == down \/ hit
        dropped == [i \in 1..Len(moved) |-> [moved[i] EXCEPT !.y = @ + ENEMY_MOVE_DOWN_STEP]]
    IN  IF down1
        THEN [enemies |-> dropped, speed |-> sp1, down |-> FALSE, wall_hit |-> hit,
              reached |-> \E i \in 1..Len(dropped) : dropped[i].y + ENEMY_HEIGHT >= ptop]
        ELSE [enemies |-> moved, speed |-> sp1, down |-> FALSE, wall_hit |-> hit,
              reached |-> FALSE]

\* StepDue with `>` instead of `>=`
StepDue_Strict(elapsed) == elapsed > ENEMY_MOVE_INTERVAL

\* line 314: is a formation step due
StepDue(elapsed) == elapsed >= ENEMY_MOVE_INTERVAL

\* lines 312-334
EnemyMovement ==
    /\ pc = "formation"
    /\ IF enemies_group # <<>> /\ StepDue(since_last_enemy_move)
       THEN LET r == EnemyStep(enemies_group, enemy_current_move_speed_x,
                               move_enemies_down, player.y)
            IN  /\ enemies_group' = r.enemies
                /\ enemy_current_move_speed_x' = r.speed
                /\ move_enemies_down' = r.down
                /\ wall_hit' = r.wall_hit
                /\ player' = IF r.reached THEN [player EXCEPT !.lives = 0] ELSE player
                /\ game_state' = IF r.reached THEN "game_over" ELSE game_state
                /\ since_last_enemy_move' = 0
       ELSE UNCHANGED <<enemies_group, enemy_current_move_speed_x, move_enemies_down,
                        wall_hit, player, game_state, since_last_enemy_move>>
    /\ pc' = "shoot"
    /\ cues' = <<>>
    /\ console' = <<>>
    /\ UNCHANGED <<running, score, player_bullets, enemy_bullets, since_last_shot,
                   shoot_requests>>

\* Enemy.shoot for the enemies of es whose random draw (line 338) came out
\* below ENEMY_SHOOT_CHANCE, in group order
Enemy_shoot(es, shooters) ==
    LET fires(e) == e.id \in shooters
        firing == SelectSeq(es, fires)
    IN  [i \in 1..Len(firing) |->
            Bullet(firing[i].x + (ENEMY_WIDTH \div 2), firing[i].y + ENEMY_HEIGHT, 1)]

\* lines 337-339
EnemyShooting ==
    /\ pc = "shoot"
    /\ \E shooters \in SUBSET {enemies_group[i].id : i \in 1..Len(enemies_group)} :
          /\ Len(player_bullets) + Len(enemy_bullets) + Cardinality(shooters) <= MaxBullets
          /\ enemy_bullets' = enemy_bullets \o Enemy_shoot(enemies_group, shooters)
          /\ cues' = [i \in 1..Cardinality(shooters) |-> "enemy_shoot"]
          /\ console' = <<>>
    /\ pc' = "hit_enemies"
    /\ UNCHANGED <<running, game_state, score, player, enemies_group, player_bullets,
                   enemy_current_move_speed_x, move_enemies_down, wall_hit, since_last_shot,
                   since_last_enemy_move, shoot_requests>>

\* ---- Collisions ----
\* groupcollide with the bullets killed after the loop over the enemies: every
\* enemy is tested against all the bullets
RECURSIVE groupcollide_BulletsKilledLast(_, _)
groupcollide_BulletsKilledLast(es, bs) ==
    IF es = <<>>
    THEN [enemies |-> <<>>, bullets |-> bs, crashed |-> 0]
    ELSE LET e == Head(es)
             hit(b) == BulletHitsEnemy(b, e)
             miss(b) == ~BulletHitsEnemy(b, e)
             rest == groupcollide_BulletsKilledLast(Tail(es), bs)
         IN  IF SelectSeq(bs, hit) # <<>>
             THEN [rest EXCEPT !.crashed = @ + 1, !.bullets = SelectSeq(@, miss)]
             ELSE [rest EXCEPT !.enemies = <<e>> \o @, !.bullets = SelectSeq(@, miss)]

\* pygame.sprite.groupcollide(es, bs, True, True): the sprites of es in group
\* order, each one spritecollide'd against what is left of bs; a sprite with
\* a collision is killed and so are the bullets that collided with it
RECURSIVE groupcollide(_, _)
groupcollide(es, bs) ==
    IF es = <<>>
    THEN [enemies |-> <<>>, bullets |-> bs, crashed |-> 0]
    ELSE LET e == Head(es)
             hit(b) == BulletHitsEnemy(b, e)
             miss(b) == ~BulletHitsEnemy(b, e)
             collision == SelectSeq(bs, hit)
             rest == groupcollide(Tail(es), IF collision # <<>> THEN SelectSeq(bs, miss) ELSE bs)
         IN  IF collision # <<>>
             THEN [rest EXCEPT !.crashed = @ + 1]
             ELSE [rest EXCEPT !.enemies = <<e>> \o @]

\* AddScore once per collision pass with a hit instead of once per enemy
AddScore_OncePerPass(sc, crashed) == IF crashed > 0 THEN sc + SCORE_PER_ENEMY ELSE sc

\* line 345, once per destroyed enemy
AddScore(sc, crashed) == sc + SCORE_PER_ENEMY * crashed

\* lines 343-347
PlayerBulletCollisions ==
    /\ pc = "hit_enemies"
    /\ LET r == groupcollide(enemies_group, player_bullets)
       IN  /\ enemies_group' = r.enemies
           /\ player_bullets' = r.bullets
           /\ score' = AddScore(score, r.crashed)
           /\ cues' = [i \in 1..r.crashed |-> "enemy_destroyed"]
           /\ console' = <<>>
    /\ pc' = "hit_player"
    /\ UNCHANGED <<running, game_state, player, enemy_bullets, enemy_current_move_speed_x,
                   move_enemies_down, wall_hit, since_last_shot, since_last_enemy_move, shoot_requests>>

\* PlayerHit with the test of line 355 as `< 0` instead of `<= 0`
RECURSIVE PlayerHit_DeadBelowZero(_, _)
PlayerHit_DeadBelowZero(st, n) ==
    IF n = 0 THEN st
    ELSE LET lives == st.player.lives - 1
         IN  PlayerHit_DeadBelowZero(
                 IF lives < 0
                 THEN [player |-> [st.player EXCEPT !.lives = lives, !.alive = FALSE],
                       game_state |-> "game_over"]
                 ELSE [st EXCEPT !.player.lives = lives],
                 n - 1)

\* lines 351-358: the loop body, for n hits, on st = [player, game_state]
RECURSIVE PlayerHit(_, _)
PlayerHit(st, n) ==
    IF n = 0 THEN st
    ELSE LET lives == st.player.lives - 1
         IN  PlayerHit(IF lives <= 0
                       THEN [player |-> [st.player EXCEPT !.lives = lives, !.alive = FALSE],
                             game_state |-> "game_over"]
                       ELSE [st EXCEPT !.player.lives = lives],
                       n - 1)

\* lines 350-358
EnemyBulletCollisions ==
    /\ pc = "hit_player"
    /\ LET hit(b) == BulletHitsPlayer(b, player)
           miss(b) == ~BulletHitsPlayer(b, player)
           hits == SelectSeq(enemy_bullets, hit)
           st == PlayerHit([player |-> player, game_state |-> game_state], Len(hits))
       IN  /\ enemy_bullets' = SelectSeq(enemy_bullets, miss)
           /\ player' = st.player
           /\ game_state' = st.game_state
           /\ cues' = [i \in 1..Len(hits) |-> "player_hit"]
           /\ console' = <<>>
    /\ pc' = "win_check"
    /\ UNCHANGED <<running, score, enemies_group, player_bullets,
                   enemy_current_move_speed_x, move_enemies_down, wall_hit, since_last_shot,
                   since_last_enemy_move, shoot_requests>>

\* WinCondition without the test of game_state
WinCondition_AnyPhase(es, gs) == es = <<>>

\* line 361
WinCondition(es, gs) == es = <<>> /\ gs = "playing"

\* lines 361-363, then the drawing and the jump back to line 282
WinCheck ==
    /\ pc = "win_check"
    /\ game_state' = IF WinCondition(enemies_group, game_state) THEN "win" ELSE game_state
    /\ pc' = "top"
    /\ cues' = <<>>
    /\ console' = <<>>
    /\ UNCHANGED <<running, score, player, enemies_group, player_bullets, enemy_bullets,
                   enemy_current_move_speed_x, move_enemies_down, wall_hit, since_last_shot,
                   since_last_enemy_move, shoot_requests>>

\* ---- Terminal screens ----
\* game_over_screen / win_screen, one pass of the wait loop (lines 220-229 /
\* 240-249) over the events q: "exit" if sys.exit() was reached, "return" if
\* the loop ends after this pass, "wait" otherwise
ScreenPass(q) ==
    IF \E i \in 1..Len(q) : q[i] = "QUIT" \/ q[i] = "KEYUP_q" THEN "exit"
    ELSE IF \E i \in 1..Len(q) : q[i] = "KEYUP_r" THEN "return"
    ELSE "wait"

\* the call of line 301 / 304 and the `return True` after it
TerminalScreen ==
    /\ pc = "screen"
    /\ \E q \in EventBatches(ScreenEventTypes) :
          LET out == ScreenPass(q)
          IN  /\ out # "wait"
              /\ IF out = "return"
                 THEN Restart
                 ELSE /\ pc' = "exited"
                      /\ cues' = <<>>
                      /\ console' = <<>>
                      /\ UNCHANGED <<running, game_state, score, player, enemies_group,
                                     player_bullets, enemy_bullets,
                                     enemy_current_move_speed_x, move_enemies_down, wall_hit,
                                     since_last_shot, since_last_enemy_move, shoot_requests>>

Next ==
    \/ ClockTick
    \/ ProcessExit
    \/ EventHandling
    \/ UpdateSprites
    \/ EnemyMovement
    \/ EnemyShooting
    \/ PlayerBulletCollisions
    \/ EnemyBulletCollisions
    \/ WinCheck
    \/ TerminalScreen

Spec == Init /\ [][Next]_vars

\* ---- Properties ----
\* a step that starts a new playthrough (Restart)
IsRestart == pc \in {"events", "screen"} /\ pc' = "top"

\* C1: the lives counter is never negative: lives is in 0..PLAYER_LIVES in
\* every reachable state
C1_LivesInRange == player.lives \in 0..PLAYER_LIVES

\* C2 (as claimed): whenever the Win check of a tick finds the live enemy set
\* empty, the phase after the check is Win, whatever else happened in the tick
C2_LastKillAlwaysWins ==
    [][(pc = "win_check" /\ enemies_group = <<>>) => game_state' = "win"]_vars

\* C2 (amended): whenever the Win check of a tick finds the live enemy set
\* empty, the phase after the check is Win if the phase is still Playing, and
\* stays GameOver if GameOver was set earlier in that tick
C2_LastKillWinsIfStillPlaying ==
    [][(pc = "win_check" /\ enemies_group = <<>>)
          => /\ game_state \in {"playing", "game_over"}
             /\ game_state' = IF game_state = "playing" THEN "win" ELSE "game_over"]_vars

\* the last enemy was destroyed in a tick that stayed Playing: the tick ends in Win
C2_Witness == pc = "top" /\ enemies_group = <<>> /\ game_state = "win"

\* C3: Win is entered only from Playing, only by the Win check, and only with
\* the live enemy set empty; GameOver never becomes Win and Win never becomes
\* GameOver
C3_WinOnlyFromPlaying ==
    [][/\ (game_state' = "win" /\ game_state # "win")
            => (game_state = "playing" /\ pc = "win_check" /\ enemies_group = <<>>)
       /\ (game_state = "game_over" => game_state' # "win")
       /\ (game_state = "win" => game_state' # "game_over")]_vars

\* the Win check runs with the live enemy set empty after GameOver was set
\* earlier in the tick
C3_Witness == pc = "win_check" /\ enemies_group = <<>> /\ game_state = "game_over"

\* C4: while the phase is GameOver no enemy is destroyed and the score does
\* not change
C4_NoKillWhileGameOver ==
    [][(game_state = "game_over" /\ game_state' = "game_over")
          => (enemies_group' = enemies_group /\ score' = score)]_vars

\* C5: in a formation step, a wall-hit after the horizontal move flips the
\* direction once and drops every live enemy by ENEMY_MOVE_DOWN_STEP in that
\* same step; a step without a wall-hit neither flips nor drops; the
\* pending-descent flag is clear after every step
C5_BounceAndDescentAtomic ==
    [][pc = "formation" =>
        LET stepped == enemies_group # <<>> /\ since_last_enemy_move >= 500
            sp == enemy_current_move_speed_x
            breach == \E i \in 1..Len(enemies_group) :
                           \/ enemies_group[i].x + sp + ENEMY_WIDTH > SCREEN_WIDTH
                           \/ enemies_group[i].x + sp < 0
        IN  /\ move_enemies_down' = FALSE
            /\ Len(enemies_group') = Len(enemies_group)
            /\ (stepped /\ breach) =>
                  /\ enemy_current_move_speed_x' = 0 - sp
                  /\ \A i \in 1..Len(enemies_group) :
                        /\ enemies_group'[i].x = enemies_group[i].x + sp
                        /\ enemies_group'[i].y = enemies_group[i].y + ENEMY_MOVE_DOWN_STEP
            /\ (stepped /\ ~breach) =>
                  /\ enemy_current_move_speed_x' = sp
                  /\ \A i \in 1..Len(enemies_group) :
                        /\ enemies_group'[i].x = enemies_group[i].x + sp
                        /\ enemies_group'[i].y = enemies_group[i].y
            /\ ~stepped =>
                  /\ enemy_current_move_speed_x' = sp
                  /\ enemies_group' = enemies_group]_vars

\* a step in which both enemies of the column breached the right boundary
\* has just flipped the direction and dropped both
C5_Witness ==
    /\ pc = "shoot"
    /\ since_last_enemy_move = 0
    /\ enemy_current_move_speed_x = -1
    /\ Len(enemies_group) = 2
    /\ \A i \in 1..2 : /\ enemies_group[i].x + ENEMY_WIDTH > SCREEN_WIDTH
                       /\ enemies_group[i].y = start_y + (i - 1) * ENEMY_SPACING_Y + ENEMY_MOVE_DOWN_STEP

\* C6: the formation is stepped only in the formation block of a tick and only
\* when at least 500 ms have passed since the last step: a shorter elapsed
\* time changes no enemy position, an elapsed time >= 500 ms applies exactly
\* one horizontal step and resets the elapsed time to 0; no other step of the
\* loop moves an enemy
C6_StepOnlyWhenDue ==
    [][/\ (pc = "formation" /\ since_last_enemy_move < 500)
            => (enemies_group' = enemies_group
                /\ since_last_enemy_move' = since_last_enemy_move)
       /\ (pc = "formation" /\ since_last_enemy_move >= 500)
            => /\ since_last_enemy_move' = 0
               /\ Len(enemies_group') = Len(enemies_group)
               /\ \A i \in 1..Len(enemies_group) :
                     enemies_group'[i].x = enemies_group[i].x + enemy_current_move_speed_x
       /\ (pc # "formation" /\ ~IsRestart)
            => \A i \in 1..Len(enemies_group') :
                  \E j \in 1..Len(enemies_group) : enemies_group'[i] = enemies_group[j]]_vars

\* a tick whose formation block ran 250 ms after the last step and left the
\* formation where that step had put it
C6_Witness ==
    /\ pc = "shoot"
    /\ since_last_enemy_move = 250
    /\ Len(enemies_group) = 2
    /\ enemies_group[1].x = start_x + 1

\* C7: an event loop with a shoot request made more than 250 ms after the
\* last shot creates exactly one player bullet at the player's top, plays one
\* cue and resets the elapsed time; a request made within the cooldown (also a
\* second request in the same loop) creates no bullet, plays no cue and leaves
\* the elapsed time alone; no other step creates a player bullet
C7_ShootCooldown ==
    [][/\ (pc = "events" /\ pc' = "update")
            => IF shoot_requests' > 0 /\ since_last_shot > 250
               THEN /\ player_bullets' =
                          Append(player_bullets,
                                 [x |-> player.x + (PLAYER_WIDTH \div 2) - (BULLET_WIDTH \div 2),
                                  y |-> player.y - BULLET_HEIGHT,
                                  speed_y |-> 0 - BULLET_SPEED])
                    /\ since_last_shot' = 0
                    /\ cues' = <<"player_shoot">>
               ELSE /\ player_bullets' = player_bullets
                    /\ since_last_shot' = since_last_shot
                    /\ cues' = <<>>
       /\ (pc # "events") => Len(player_bullets') <= Len(player_bullets)]_vars

\* two shoot requests in one event loop, more than 250 ms after the last
\* shot: one bullet, one cue
C7_Witness ==
    /\ pc = "update"
    /\ shoot_requests = 2
    /\ cues = <<"player_shoot">>
    /\ since_last_shot = 0

\* C8: score = 100 * (ENEMY_ROWS * ENEMY_COLS - number of live enemies) in
\* every reachable state
C8_ScoreCountsDestroyed ==
    score = 100 * (ENEMY_ROWS * ENEMY_COLS - Len(enemies_group))

\* two enemies were destroyed in one collision pass
C8_Witness ==
    /\ pc = "hit_player"
    /\ cues = <<"enemy_destroyed", "enemy_destroyed">>
    /\ score = 200

\* C9: a restart starts the new playthrough in Playing with score 0, 3 lives,
\* the initial step direction, no pending descent, the full grid at its
\* initial positions, the player at its initial position and no bullet
C9_RestartResets ==
    [][IsRestart =>
        /\ game_state' = "playing"
        /\ running'
        /\ score' = 0
        /\ player'.lives = 3
        /\ player'.alive
        /\ player'.x = (SCREEN_WIDTH - PLAYER_WIDTH) \div 2
        /\ player'.y = SCREEN_HEIGHT - PLAYER_HEIGHT - PLAYER_MARGIN
        /\ enemy_current_move_speed_x' = 1
        /\ move_enemies_down' = FALSE
        /\ since_last_shot' = 0
        /\ since_last_enemy_move' = 0
        /\ Len(enemies_group') = ENEMY_ROWS * ENEMY_COLS
        /\ \A r \in 0..(ENEMY_ROWS - 1), c \in 0..(ENEMY_COLS - 1) :
              enemies_group'[r * ENEMY_COLS + c + 1] =
                  [id |-> r * ENEMY_COLS + c,
                   x |-> start_x + c * ENEMY_SPACING_X,
                   y |-> start_y + r * ENEMY_SPACING_Y]
        /\ player_bullets' = <<>>
        /\ enemy_bullets' = <<>>]_vars

\* a playthrough that was started by a restart
C9_Witness == console = <<"Restarting the game...">> /\ pc = "top"

\* C10: once a quit input has been consumed (running is False) no new
\* playthrough starts
C10_QuitNeverRestarts == [][~running => ~IsRestart]_vars

\* C11: a bullet is removed in a tick if and only if, after its move, its
\* trailing edge has crossed the boundary it travels toward (bottom < 0 for a
\* player bullet, top > SCREEN_HEIGHT for an enemy bullet) or it overlaps a
\* valid target in the tick's collision pass (a live enemy for a player
\* bullet, the player for an enemy bullet): the update keeps exactly the
\* moved bullets that have not crossed, each collision pass keeps exactly the
\* bullets that overlap no target, and no other step of a playthrough
\* removes a bullet
C11_BulletRemovedIff ==
    [][LET up(bs) == [i \in 1..Len(bs) |-> [bs[i] EXCEPT !.y = @ - BULLET_SPEED]]
           dn(bs) == [i \in 1..Len(bs) |-> [bs[i] EXCEPT !.y = @ + BULLET_SPEED]]
           notAbove(b) == b.y + BULLET_HEIGHT >= 0
           notBelow(b) == b.y <= SCREEN_HEIGHT
           overlaps(b, x, y, w, h) ==
               b.x < x + w /\ x < b.x + BULLET_WIDTH /\ b.y < y + h /\ y < b.y + BULLET_HEIGHT
           clearOfEnemies(b) ==
               \A i \in 1..Len(enemies_group) :
                  ~overlaps(b, enemies_group[i].x, enemies_group[i].y, ENEMY_WIDTH, ENEMY_HEIGHT)
           clearOfPlayer(b) == ~overlaps(b, player.x, player.y, PLAYER_WIDTH, PLAYER_HEIGHT)
           grows(old, new) == Len(new) >= Len(old) /\ SubSeq(new, 1, Len(old)) = old
       IN  /\ pc = "update" =>
                 /\ player_bullets' = SelectSeq(up(player_bullets), notAbove)
                 /\ enemy_bullets' = SelectSeq(dn(enemy_bullets), notBelow)
           /\ pc = "hit_enemies" =>
                 /\ player_bullets' = SelectSeq(player_bullets, clearOfEnemies)
                 /\ enemy_bullets' = enemy_bullets
           /\ pc = "hit_player" =>
                 /\ enemy_bullets' = SelectSeq(enemy_bullets, clearOfPlayer)
                 /\ player_bullets' = player_bullets
           /\ (pc \notin {"update", "hit_enemies", "hit_player"} /\ ~IsRestart) =>
                 /\ grows(player_bullets, player_bullets')
                 /\ grows(enemy_bullets, enemy_bullets')]_vars

\* after an update a player bullet has its bottom edge exactly on the top of
\* the screen and an enemy bullet its top edge exactly on the bottom of the
\* screen: neither has crossed, both are still in flight
C11_Witness ==
    /\ pc = "formation"
    /\ \E i \in 1..Len(player_bullets) : player_bullets[i].y + BULLET_HEIGHT = 0
    /\ \E i \in 1..Len(enemy_bullets) : enemy_bullets[i].y = SCREEN_HEIGHT

\* C12: every bullet is in exactly one of the two bullet sets (the sets share
\* no bullet; a player bullet has speed_y = -BULLET_SPEED, an enemy bullet
\* +BULLET_SPEED, for its whole life); every tick that is Playing at its
\* event loop runs the update; the update moves every bullet that stays by
\* exactly its speed_y in y and not at all in x, the bullet spawned by this
\* tick's input included; no other step moves a bullet
C12_BulletMotion ==
    [][LET in(b, bs) == \E i \in 1..Len(bs) : bs[i] = b
           movedFrom(b, bs, v) ==
               \E i \in 1..Len(bs) : b = [x |-> bs[i].x, y |-> bs[i].y + v, speed_y |-> v]
           spawnedOrOld(new, old, v) ==
               \A j \in 1..Len(new) : new[j].speed_y = v /\ (j <= Len(old) => new[j] = old[j])
       IN  /\ \A i \in 1..Len(player_bullets) : player_bullets[i].speed_y = 0 - BULLET_SPEED
           /\ \A i \in 1..Len(enemy_bullets) : enemy_bullets[i].speed_y = BULLET_SPEED
           /\ \A i \in 1..Len(player_bullets) : ~in(player_bullets[i], enemy_bullets)
           /\ (pc = "events" /\ game_state = "playing") =>
                 /\ pc' = "update"
                 /\ spawnedOrOld(player_bullets', player_bullets, 0 - BULLET_SPEED)
                 /\ enemy_bullets' = enemy_bullets
           /\ pc = "update" =>
                 /\ \A j \in 1..Len(player_bullets') :
                       movedFrom(player_bullets'[j], player_bullets, 0 - BULLET_SPEED)
                 /\ \A j \in 1..Len(enemy_bullets') :
                       movedFrom(enemy_bullets'[j], enemy_bullets, BULLET_SPEED)
           /\ pc = "shoot" =>
                 /\ spawnedOrOld(enemy_bullets', enemy_bullets, BULLET_SPEED)
                 /\ player_bullets' = player_bullets
           /\ (pc \notin {"events", "update", "shoot"} /\ ~IsRestart) =>
                 /\ \A j \in 1..Len(player_bullets') : in(player_bullets'[j], player_bullets)
                 /\ \A j \in 1..Len(enemy_bullets') : in(enemy_bullets'[j], enemy_bullets)]_vars

\* the update of the tick whose event loop spawned a player bullet has moved
\* that bullet one step up from the player's top, with an enemy bullet in
\* flight below its muzzle
C12_Witness ==
    /\ pc = "formation"
    /\ since_last_shot = 0
    /\ \E i \in 1..Len(player_bullets) :
          /\ player_bullets[i].y = player.y - BULLET_HEIGHT - BULLET_SPEED
          /\ player_bullets[i].x = player.x + (PLAYER_WIDTH \div 2) - (BULLET_WIDTH \div 2)
    /\ \E i \in 1..Len(enemy_bullets), k \in 1..3 :
          enemy_bullets[i].y = start_y + ENEMY_HEIGHT + k * BULLET_SPEED

\* C13: the phase goes from Playing to GameOver in a step if and only if the
\* step is a formation step whose descent leaves some live enemy's bottom
\* edge at or below the player's top edge (whatever the lives left), or the
\* enemy-bullet collision pass with at least one hit that brings the lives to
\* <= 0; no other step sets GameOver, and the update and the formation block
\* only ever run in phase Playing
C13_GameOverIff ==
    [][LET descended == \E i \in 1..Len(enemies_group) :
                            enemies_group'[i].y # enemies_group[i].y
           reaches == \E i \in 1..Len(enemies_group) :
                          enemies_group'[i].y + ENEMY_HEIGHT >= player.y
           hits == Cardinality({i \in 1..Len(enemy_bullets) :
                       /\ enemy_bullets[i].x < player.x + PLAYER_WIDTH
                       /\ player.x < enemy_bullets[i].x + BULLET_WIDTH
                       /\ enemy_bullets[i].y < player.y + PLAYER_HEIGHT
                       /\ player.y < enemy_bullets[i].y + BULLET_HEIGHT})
       IN  /\ pc = "formation" =>
                 /\ game_state = "playing"
                 /\ Len(enemies_group') = Len(enemies_group)
                 /\ game_state' = "game_over" <=> (descended /\ reaches)
           /\ (pc = "hit_player" /\ game_state = "playing") =>
                 (game_state' = "game_over" <=> (hits >= 1 /\ player.lives - hits <= 0))
           /\ (pc \notin {"formation", "hit_player"} /\ game_state = "playing") =>
                 game_state' # "game_over"]_vars

\* a descent has just brought an enemy's bottom edge exactly onto the
\* player's top edge: GameOver, with the player never hit by a last bullet
C13_Witness ==
    /\ pc = "shoot"
    /\ game_state = "game_over"
    /\ player.alive
    /\ \E i \in 1..Len(enemies_group) : enemies_group[i].y + ENEMY_HEIGHT = player.y
    /\ \A i \in 1..Len(enemies_group) : enemies_group[i].y + ENEMY_HEIGHT <= player.y

\* C14: while the phase is GameOver or Win every step other than a restart
\* leaves the entities, the formation, the score and the lives as they are
\* (nothing is updated, spawned, removed or stepped), and the phase is left
\* only by a restart or by the end of the process
C14_TerminalPhaseFrozen ==
    [][(game_state \in {"game_over", "win"} /\ ~IsRestart) =>
          /\ game_state' = game_state
          /\ UNCHANGED <<score, player, enemies_group, player_bullets, enemy_bullets,
                         enemy_current_move_speed_x, move_enemies_down>>]_vars

\* ---- the collision pass of lines 343-347 as a function of its inputs ----
\* the rects the pass is applied to: every placement of the enemies of the
\* grid, and of up to MaxBullets player bullets, in the top-left block of the
\* arena, the enemies also closer together than the formation keeps them
CollideEnemies ==
    {e \in [1..(ENEMY_ROWS * ENEMY_COLS) ->
                [id : 0..(ENEMY_ROWS * ENEMY_COLS - 1),
                 x : 0..(SCREEN_WIDTH - ENEMY_WIDTH - 1),
                 y : start_y..ENEMY_HEIGHT]] :
        \A i \in DOMAIN e : e[i].id = i - 1}

CollideBulletRects ==
    [x : 0..(SCREEN_WIDTH - BULLET_WIDTH - 1), y : start_y..ENEMY_SPACING_Y,
     speed_y : {0 - BULLET_SPEED}]

CollideBullets ==
    UNION {[1..n -> CollideBulletRects] : n \in 0..MaxBullets}

\* main_game at line 343, with the two groups as chosen
InitCollide ==
    /\ pc = "hit_enemies"
    /\ running = TRUE
    /\ game_state = "playing"
    /\ score = 0
    /\ player = NewPlayer
    /\ enemies_group \in CollideEnemies
    /\ player_bullets \in CollideBullets
    /\ enemy_bullets = <<>>
    /\ enemy_current_move_speed_x = ENEMY_MOVE_SPEED_X
    /\ move_enemies_down = FALSE
    /\ wall_hit = FALSE
    /\ since_last_shot = 0
    /\ since_last_enemy_move = 0
    /\ shoot_requests = 0
    /\ cues = <<>>
    /\ console = <<>>

NextCollide == PlayerBulletCollisions

SpecCollide == InitCollide /\ [][NextCollide]_vars

\* C15: in the player-bullets x live-enemies pass every bullet that overlaps
\* an enemy is consumed, and it destroys exactly the first enemy, in group
\* order, that it overlaps: an enemy is destroyed if and only if it is the
\* first overlapping enemy of some bullet, so that an enemy overlapped only by
\* bullets that an earlier enemy consumes survives, and the pass destroys at
\* most as many enemies as it consumes bullets
C15_OneBulletOneEnemy ==
    [][pc = "hit_enemies" =>
        LET E == enemies_group
            B == player_bullets
            overlaps(e, b) ==
                /\ b.x < e.x + ENEMY_WIDTH /\ e.x < b.x + BULLET_WIDTH
                /\ b.y < e.y + ENEMY_HEIGHT /\ e.y < b.y + BULLET_HEIGHT
            firstOf(i, j) ==
                overlaps(E[i], B[j]) /\ \A k \in 1..(i - 1) : ~overlaps(E[k], B[j])
            destroyed == {i \in 1..Len(E) : \E j \in 1..Len(B) : firstOf(i, j)}
            consumed == {j \in 1..Len(B) : \E i \in 1..Len(E) : overlaps(E[i], B[j])}
            survives(e) == \A i \in destroyed : E[i].id # e.id
            clear(b) == \A i \in 1..Len(E) : ~overlaps(E[i], b)
        IN  /\ enemies_group' = SelectSeq(E, survives)
            /\ player_bullets' = SelectSeq(B, clear)
            /\ Cardinality(destroyed) <= Cardinality(consumed)
            /\ Len(E) - Len(enemies_group') = Cardinality(destroyed)
            /\ Len(B) - Len(player_bullets') = Cardinality(consumed)]_vars

\* the pass is at a single bullet that overlaps both enemies of the group:
\* the step from here destroys the first enemy and the bullet and leaves the
\* second enemy
C15_Witness ==
    /\ pc = "hit_enemies"
    /\ Len(player_bullets) = 1
    /\ Len(enemies_group) = 2
    /\ enemies_group[1] # enemies_group[2]
    /\ \A i \in 1..2 : BulletHitsEnemy(player_bullets[1], enemies_group[i])

\* C16: the player is always within the horizontal screen bounds (left edge
\* >= 0, right edge <= SCREEN_WIDTH) and on its initial row; the update
\* moves it by -PLAYER_SPEED, 0 or +PLAYER_SPEED and then clamps it into the
\* bounds (no wraparound); no other step of a playthrough moves it
C16_PlayerWithinBounds ==
    [][LET clamp(v) == IF v < 0 THEN 0
                       ELSE IF v > SCREEN_WIDTH - PLAYER_WIDTH
                            THEN SCREEN_WIDTH - PLAYER_WIDTH ELSE v
       IN  /\ 0 <= player.x /\ player.x + PLAYER_WIDTH <= SCREEN_WIDTH
           /\ 0 <= player'.x /\ player'.x + PLAYER_WIDTH <= SCREEN_WIDTH
           /\ player'.y = player.y
           /\ player.y = SCREEN_HEIGHT - PLAYER_HEIGHT - PLAYER_MARGIN
           /\ pc = "update" =>
                 \E d \in {0 - PLAYER_SPEED, 0, PLAYER_SPEED} : player'.x = clamp(player.x + d)
           /\ (pc # "update" /\ ~IsRestart) => player'.x = player.x]_vars

\* the first update of a playthrough, with the left key down, has clamped
\* the player at the left edge (its initial x is less than PLAYER_SPEED)
C16_Witness ==
    /\ pc = "formation"
    /\ player.x = 0
    /\ (SCREEN_WIDTH - PLAYER_WIDTH) \div 2 < PLAYER_SPEED
    /\ enemies_group = create_enemies
    /\ since_last_enemy_move < ENEMY_MOVE_INTERVAL

\* C17: the formation is a rigid body: no step other than a formation step
\* changes the position of an enemy, a formation step displaces all live
\* enemies by one and the same (dx, dy) and removes or adds none, and so two
\* live enemies are always at the offset their grid cells had at creation
C17_FormationRigid ==
    [][LET E == enemies_group
           F == enemies_group'
           row(e) == e.id \div ENEMY_COLS
           col(e) == e.id % ENEMY_COLS
       IN  /\ \A i \in 1..Len(E), j \in 1..Len(E) :
                 /\ E[i].x - E[j].x = (col(E[i]) - col(E[j])) * ENEMY_SPACING_X
                 /\ E[i].y - E[j].y = (row(E[i]) - row(E[j])) * ENEMY_SPACING_Y
           /\ (pc # "formation" /\ ~IsRestart) =>
                 \A j \in 1..Len(F) : \E i \in 1..Len(E) : F[j] = E[i]
           /\ pc = "formation" =>
                 /\ Len(F) = Len(E)
                 /\ \A i \in 1..Len(E) : F[i].id = E[i].id
                 /\ \A i \in 1..Len(E), j \in 1..Len(E) :
                       /\ F[i].x - E[i].x = F[j].x - E[j].x
                       /\ F[i].y - E[i].y = F[j].y - E[j].y]_vars

\* both enemies of the column, after a bounce at the right wall and two steps
\* back to the left: displaced together, one descent below their cells
C17_Witness ==
    /\ pc = "shoot"
    /\ since_last_enemy_move = 0
    /\ enemy_current_move_speed_x = 0 - ENEMY_MOVE_SPEED_X
    /\ Len(enemies_group) = ENEMY_ROWS * ENEMY_COLS
    /\ \A i \in 1..Len(enemies_group) :
          /\ enemies_group[i].x = start_x
          /\ enemies_group[i].y = start_y + (i - 1) * ENEMY_SPACING_Y + ENEMY_MOVE_DOWN_STEP

\* C18: whenever a tick begins in phase Playing (at the loop test and at the
\* event loop), lives is in 1..PLAYER_LIVES, the player is still in its
\* group, the live enemy set is not empty and every live enemy's bottom edge
\* is strictly above the player's top edge
C18_PlayingTickStartsLive ==
    (pc \in {"top", "events"} /\ game_state = "playing") =>
        /\ player.lives \in 1..PLAYER_LIVES
        /\ player.alive
        /\ enemies_group # <<>>
        /\ \A i \in 1..Len(enemies_group) : enemies_group[i].y + ENEMY_HEIGHT < player.y

\* a tick begins in Playing at the edge of every condition: one life left,
\* one enemy left, its bottom edge one descent above the player's top edge
C18_Witness ==
    /\ pc = "top"
    /\ game_state = "playing"
    /\ player.lives = 1
    /\ Len(enemies_group) = 1
    /\ enemies_group[1].y + ENEMY_HEIGHT + ENEMY_MOVE_DOWN_STEP = player.y

\* C19: a bounce step is never followed at once by another bounce step: a
\* formation step sets wall_hit exactly when it leaves a live enemy beyond the
\* left or right screen boundary, it never leaves any enemy more than one
\* horizontal step beyond a boundary, and the step that follows a bounce step
\* brings every live enemy back within [0, SCREEN_WIDTH], keeps the direction
\* and does not descend; wall_hit changes in formation steps only
C19_NoDoubleBounce ==
    [][LET E == enemies_group
           F == enemies_group'
           due == E # <<>> /\ since_last_enemy_move >= ENEMY_MOVE_INTERVAL
           beyond(e, d) == e.x < 0 - d \/ e.x + ENEMY_WIDTH > SCREEN_WIDTH + d
       IN  /\ (pc = "formation" /\ due) =>
                 /\ wall_hit' <=> \E i \in 1..Len(F) : beyond(F[i], 0)
                 /\ \A i \in 1..Len(F) : ~beyond(F[i], ENEMY_MOVE_SPEED_X)
           /\ (pc = "formation" /\ due /\ wall_hit) =>
                 /\ ~wall_hit'
                 /\ enemy_current_move_speed_x' = enemy_current_move_speed_x
                 /\ Len(F) = Len(E)
                 /\ \A i \in 1..Len(E) : F[i].y = E[i].y /\ ~beyond(F[i], 0)
           /\ (~(pc = "formation" /\ due) /\ ~IsRestart) => wall_hit' = wall_hit]_vars

\* the step after a bounce at the right wall: the formation is back with its
\* right edge on the boundary, still moving left, one descent down
C19_Witness ==
    /\ pc = "shoot"
    /\ since_last_enemy_move = 0
    /\ ~wall_hit
    /\ enemy_current_move_speed_x = 0 - ENEMY_MOVE_SPEED_X
    /\ enemies_group # <<>>
    /\ \A i \in 1..Len(enemies_group) :
          /\ enemies_group[i].x + ENEMY_WIDTH = SCREEN_WIDTH
          /\ enemies_group[i].y =
                 start_y + (enemies_group[i].id \div ENEMY_COLS) * ENEMY_SPACING_Y
                     + ENEMY_MOVE_DOWN_STEP

\* C20: the cooldown runs from the creation of the player.  As long as no
\* formation step has been made (the grid is where create_enemies put it)
\* since_last_enemy_move is the time since the playthrough began, in the
\* first playthrough and after every restart.  Within the first 250 ms no
\* player bullet exists and the cooldown clock shows the age of the
\* playthrough; an event loop with a shoot request at an age <= 250 ms
\* creates no bullet and plays no cue; the first request at a later age
\* creates one bullet and plays one cue; a restart sets both clocks to 0
C20_CooldownRunsFromCreation ==
    [][LET age == since_last_enemy_move
           noShotYet == since_last_shot = Min(age, shoot_delay + 1) /\ player_bullets = <<>>
           request == pc' = "update" /\ shoot_requests' > 0
       IN  /\ IsRestart => (since_last_shot' = 0 /\ since_last_enemy_move' = 0)
           /\ (pc = "events" /\ enemies_group = create_enemies /\ age <= shoot_delay) =>
                 /\ noShotYet
                 /\ game_state = "playing"
                 /\ request => (player_bullets' = <<>> /\ cues' = <<>>)
           /\ (pc = "events" /\ enemies_group = create_enemies /\ age > shoot_delay
               /\ game_state = "playing" /\ noShotYet /\ request) =>
                 /\ Len(player_bullets') = 1
                 /\ cues' = <<"player_shoot">>
                 /\ since_last_shot' = 0]_vars

\* the first event loop of a playthrough, 250 ms after the player was
\* created, has handled a shoot request and created no bullet
C20_Witness ==
    /\ pc = "update"
    /\ shoot_requests > 0
    /\ enemies_group = create_enemies
    /\ since_last_enemy_move = shoot_delay
    /\ since_last_shot = shoot_delay
    /\ player_bullets = <<>>
    /\ cues = <<>>
====
